---- MODULE Spec2Model ----
(***************************************************************************)
(* Model of the Flickr archive downloader (downloader.py, flickr_client.py) *)
(* The archive run is strictly sequential: owned-photos walk, favorites    *)
(* walk, index build.  Each photo is archived by process_photo, whose       *)
(* remote calls and file writes are the steps of the model.                *)
(***************************************************************************)
EXTENDS Integers, Sequences, FiniteSets, TLC

\* ---------------------------------------------------------------- bounds
MaxPageLen == 2      \* items on one listing page
MaxPages == 2        \* largest page count the remote reports
MaxPeople == 2       \* comment authors / favoriting users per photo
MaxSizes == 3        \* length of a photo's size list
MaxUrlLen == 5       \* tokens of a source URL after the host
MaxRuns == 2         \* runs of the archiver over the same archive
MaxPlan == 4         \* successive remote calls whose outcome is planned

\* ------------------------------------------------------------- universes
PhotoIds == {"p1", "p2"}
PHOTOS_DIR == "my_photos"
FAVORITES_DIR == "favorited_photos"
BaseDirs == {PHOTOS_DIR, FAVORITES_DIR}
Dirs == BaseDirs \X PhotoIds
Users == {"u1", "u2", "u3"}
NoAuthor == "none"
None == "None"

SeqsUpTo(S, n) == UNION {[1..k -> S] : k \in 0..n}

VARIABLES
    scope,          \* which part of the program the behaviour exercises in detail
    pc,             \* position of the process
    run,            \* number of runs started so far
    dirs,           \* photo directories that exist on disk
    fs,             \* fs[d]: file name -> content, for the files of directory d
    doc,            \* doc[d]: JSON file name -> the non-default parts of its document
    rootfs,         \* files directly under DATA_DIR
    USER_CACHE,     \* user id -> UserInfo (partial function)
    base_dir,       \* walker: directory of the collection being walked
    processed_ids,  \* download_my_photos: snapshot of os.listdir(PHOTOS_DIR)
    page,           \* walker: current page number
    photos,         \* walker: items of the current page not yet iterated
    pages,          \* walker: page count reported by the current response
    phases,         \* the parts of the run entered so far, in order
    requests,       \* the listing requests of the current walk and their answers
    photo_id,       \* process_photo: the photo being archived
    is_video,       \* process_photo: media kind of the photo
    pending,        \* process_photo: user ids still to resolve in the current loop
    sizes,          \* process_photo: the size list returned by get_photo_sizes
    original,       \* process_photo: the selected size (thumb or original), or NoSize
    metadata,       \* process_photo: the non-default keys of the metadata dict
    entries,        \* process_photo: the comments / favorites list being built
    \* history of the current run, kept to state the properties
    flagAtStart,    \* directories holding complete.flag when the run started
    partialAtStart, \* directories that existed without complete.flag at run start
    skipped,        \* owned ids download_my_photos skipped as already processed
    invoked,        \* directories process_photo was called for
    calls,          \* directories a per-photo remote call was made for
    created,        \* files created or written by the current invocation
    failed,         \* gateway functions whose remote call failed in the last invocation
    userCalls,      \* user id -> number of remote user-info calls
    userOutcome,    \* user id -> outcome of its remote user-info call
    resolved,       \* user ids get_cached_user_info was called with
    ret,            \* the last direct get_cached_user_info call: its argument,
                    \* whether the cache answered it, the UserInfo it returned
    dl,             \* outcome of the current invocation's binary download
    stop,           \* how and where the run ended
    \* inputs and results of the two pure computations checked on their own
    sel_in,         \* a size list
    sel_out,        \* the selection made from sel_in
    url_in,         \* a source URL
    ext_out,        \* the extension parsed from url_in
    \* one call of a gateway function, or of a function under retry_on_error
    plan,           \* outcomes of the successive calls of the remote method
    fn,             \* the function called
    attempt,        \* wrapper: the loop variable
    tries,          \* calls of the remote method made so far
    waits,          \* the time.sleep durations taken so far, in order
    result          \* how the call ended

diskVars == <<dirs, fs, doc, rootfs>>
walkVars == <<base_dir, processed_ids, page, photos, pages, phases, requests>>
ppVars == <<photo_id, is_video, pending, sizes, original, metadata, entries>>
userVars == <<USER_CACHE, userCalls, userOutcome, resolved, ret>>
histVars == <<flagAtStart, partialAtStart, skipped, invoked, calls, created, failed, dl, stop>>
pureVars == <<sel_in, sel_out, url_in, ext_out>>
retryVars == <<plan, fn, attempt, tries, waits, result>>
otherVars == <<scope, run, pureVars, retryVars>>
vars == <<scope, pc, run, diskVars, walkVars, ppVars, userVars, histVars, pureVars, retryVars>>

\* ------------------------------------------------- User Info Resolver
PlaceholderAvatar == <<"https://www.flickr.com/images/buddyicon.gif">>

\* The answers flickr.people.getInfo can give for a user id, as seen through
\* get_user_info: None when the call raised, a body without 'person', or a
\* person record.
Persons(user_id) ==
    { [nsid |-> user_id, iconserver |-> s, iconfarm |-> 1, realname |-> r,
       username |-> "name", ispro |-> 1, profileurl |-> <<"people", "name">>]
        : s \in {0, 7}, r \in {"", "Real Name"} }

UserInfoResponses(user_id) ==
    { [kind |-> "fail", person |-> None], [kind |-> "noperson", person |-> None] }
        \cup { [kind |-> "person", person |-> p] : p \in Persons(user_id) }

\* A variant whose fallback leaves the names empty.
FallbackUserInfoBlank(user_id) ==
    [display_name |-> "",
     username |-> "",
     realname |-> "",
     avatar_url |-> PlaceholderAvatar,
     is_pro |-> 0,
     profile_url |-> <<"people", user_id>>]

FallbackUserInfo(user_id) ==
    [display_name |-> user_id,
     username |-> user_id,
     realname |-> "",
     avatar_url |-> PlaceholderAvatar,
     is_pro |-> 0,
     profile_url |-> <<"people", user_id>>]

PersonUserInfo(person) ==
    [display_name |-> IF person.realname # "" THEN person.realname ELSE person.username,
     username |-> person.username,
     realname |-> person.realname,
     avatar_url |-> IF person.iconserver > 0
                    THEN <<"farm", person.iconfarm, person.iconserver, person.nsid>>
                    ELSE PlaceholderAvatar,
     is_pro |-> person.ispro,
     profile_url |-> person.profileurl]

\* The entry get_cached_user_info stores for a cache miss.
UserInfoFrom(user_id, response) ==
    IF response.kind = "person"
    THEN PersonUserInfo(response.person)
    ELSE FallbackUserInfo(user_id)

\* The cache after get_cached_user_info(user_id) missed and got response.
CacheAfterMiss(cache, user_id, response) ==
    (user_id :> UserInfoFrom(user_id, response)) @@ cache

\* ------------------------------------------------------ size selection
\* A size is [label, width]; width is a natural number, or one of the two
\* sentinels below for a missing key and for a JSON null.
AbsentW == -1
NullW == -2

\* key=lambda s: int(s.get('width') or 0)     (video branch)
WidthKeyVideo(s) == IF s.width \in {AbsentW, NullW} THEN 0 ELSE s.width
\* key=lambda s: int(s.get('width', 0))       (non-video branch); int(None) raises
WidthKeyPhoto(s) == IF s.width = AbsentW THEN 0 ELSE s.width
WidthKeyRaises(s) == s.width = NullW

\* sorted(..., reverse=True) is stable: insert index i before the first index
\* whose key is smaller.
InsertDesc(idxs, i, keys) ==
    LET pos == CHOOSE j \in 1..(Len(idxs) + 1) :
                   /\ \A m \in 1..(j - 1) : keys[idxs[m]] >= keys[i]
                   /\ (j = Len(idxs) + 1 \/ keys[idxs[j]] < keys[i])
    IN  SubSeq(idxs, 1, pos - 1) \o <<i>> \o SubSeq(idxs, pos, Len(idxs))

RECURSIVE SortedDesc(_, _)
SortedDesc(keys, n) ==
    IF n = 0 THEN <<>> ELSE InsertDesc(SortedDesc(keys, n - 1), n, keys)

\* A variant whose label test never matches.
FindOriginalNoMatch(sl) == 0

\* for size in sizes: if size['label'] == 'Original': original = size; break
\* (0 stands for None)
FindOriginal(sl) ==
    IF \E i \in 1..Len(sl) : sl[i].label = "Original"
    THEN CHOOSE i \in 1..Len(sl) :
             /\ sl[i].label = "Original"
             /\ \A j \in 1..(i - 1) : sl[j].label # "Original"
    ELSE 0

\* The non-video selection: index of the chosen size, 0 for None; err when the
\* sort key raises TypeError.
SelectOriginal(sl) ==
    LET found == FindOriginal(sl) IN
    IF found # 0 THEN [err |-> FALSE, idx |-> found]
    ELSE IF Len(sl) = 0 THEN [err |-> FALSE, idx |-> 0]
    ELSE IF \E i \in 1..Len(sl) : WidthKeyRaises(sl[i])
         THEN [err |-> TRUE, idx |-> 0]
    ELSE LET keys == [i \in 1..Len(sl) |-> WidthKeyPhoto(sl[i])]
         IN  [err |-> FALSE, idx |-> SortedDesc(keys, Len(sl))[1]]

\* The video selection of the poster frame.
SelectThumb(sl) ==
    IF Len(sl) = 0 THEN [err |-> FALSE, idx |-> 0]
    ELSE LET keys == [i \in 1..Len(sl) |-> WidthKeyVideo(sl[i])]
         IN  [err |-> FALSE, idx |-> SortedDesc(keys, Len(sl))[1]]

\* --------------------------------------------------- extension parsing
\* A URL is a sequence of tokens: the delimiters ".", "?", "/" and words,
\* each word a maximal run of other characters (no two words adjacent).
Delims == {".", "?", "/"}
Words == {"jpg", "jpeg", "png", "gif", "webp", "x"}
Tokens == Delims \cup Words
AllowedExts == {"jpg", "jpeg", "png", "gif"}

WellFormedUrl(u) ==
    \A i \in 1..(Len(u) - 1) : ~(u[i] \in Words /\ u[i + 1] \in Words)

\* s.split(tok)[-1]
AfterLast(s, tok) ==
    IF \E i \in 1..Len(s) : s[i] = tok
    THEN LET i == CHOOSE k \in 1..Len(s) :
                      s[k] = tok /\ \A m \in (k + 1)..Len(s) : s[m] # tok
         IN  SubSeq(s, i + 1, Len(s))
    ELSE s

\* s.split(tok)[0]
BeforeFirst(s, tok) ==
    IF \E i \in 1..Len(s) : s[i] = tok
    THEN LET i == CHOOSE k \in 1..Len(s) :
                      s[k] = tok /\ \A m \in 1..(k - 1) : s[m] # tok
         IN  SubSeq(s, 1, i - 1)
    ELSE s

\* ext = photo_url.split('.')[-1].split('?')[0]; fallback to jpg
UrlExt(photo_url) ==
    LET ext == BeforeFirst(AfterLast(photo_url, "."), "?")
    IN  IF Len(ext) = 1 /\ ext[1] \in AllowedExts THEN ext[1] ELSE "jpg"

\* --------------------------------------------------------- the gateway
\* What one call of a flickrapi method can do: return a response, raise a
\* FlickrError that reports the service as temporarily unavailable (code 201,
\* "not currently available"), raise another FlickrError, or raise an
\* exception of another class (a transport error).
Outcomes == {"ok", "unavailable", "flickr_error", "exception"}

\* The functions of flickr_client.py that the downloader imports.
Unguarded == {"get_photos", "get_photo_info", "get_photo_sizes", "get_favorites",
              "get_photosets"}
\* A variant in which get_photo_comments has no try/except.
GuardedButComments == {"get_photo_favorites", "get_photo_exif",
                       "get_photo_geo", "get_photo_stats", "get_photo_contexts",
                       "get_user_info"}

Guarded == {"get_photo_comments", "get_photo_favorites", "get_photo_exif",
            "get_photo_geo", "get_photo_stats", "get_photo_contexts", "get_user_info"}
Gateways == Unguarded \cup Guarded
WrappedFunc == "func"

\* A gateway function as defined: no def carries @retry_on_error, so the
\* remote method is called once; a bare except turns any failure into the
\* function's default value, and without one the failure is raised.
GatewayOutcome(f, outcomes) ==
    [calls |-> 1,
     result |-> IF outcomes[1] = "ok" THEN "returned"
                ELSE IF f \in Guarded THEN "default" ELSE "raised"]

\* ------------------------------------------------------------ the disk
NoSize == [label |-> "", width |-> AbsentW, source |-> <<>>]
Unset == "unset"

HasFile(d, name) == name \in DOMAIN fs[d]
Write(files, d, name, content) == [files EXCEPT ![d] = (name :> content) @@ @]
OriginalName(ext) == "original." \o ext
OriginalNames == {OriginalName(e) : e \in AllowedExts}

\* The size lists get_photo_sizes returns in the archive run.
UrlPng == <<"x", "/", "x", ".", "png">>
UrlWebpQuery == <<"x", "/", "x", ".", "webp", "?", "x">>
UrlJpg == <<"x", "/", "x", ".", "jpg">>
SizesLargeOriginal ==
    <<[label |-> "Large", width |-> 2, source |-> UrlWebpQuery],
      [label |-> "Original", width |-> 1, source |-> UrlPng]>>
SizesNullWidth == <<[label |-> "Small", width |-> NullW, source |-> UrlJpg]>>

\* The remote library of the archive run: info['photo']['media'] of each photo.
RemoteMedia == [id \in PhotoIds |-> IF id = "p2" THEN "video" ELSE "photo"]

\* The users that comment on or favorite the photos of the archive run, and
\* the answers the remote gives about them there.
RunUsers == {"u1"}
RemotePeople == [id \in PhotoIds |-> IF id = "p1" THEN <<"u1">> ELSE <<>>]
RunResponses(user_id) ==
    {r \in UserInfoResponses(user_id) :
        \/ r.kind = "fail" /\ scope \in {"unit", "faults"}
        \/ r.kind = "person" /\ r.person.iconserver = 7 /\ r.person.realname = ""}

\* What the environment does in a behaviour.  A behaviour of scope "unit"
\* exercises process_photo with every outcome of its unguarded remote calls,
\* downloads and writes; a behaviour of scope "faults" exercises it with every
\* outcome of its guarded remote calls; a behaviour of scope "run" exercises
\* the whole run, with the outcomes that change what the walkers and the index
\* builder see.
SizeLists ==
    IF scope = "unit" THEN {<<>>, SizesLargeOriginal, SizesNullWidth} ELSE {SizesLargeOriginal}
PeopleLists ==
    IF scope = "unit" THEN SeqsUpTo(RunUsers \cup {NoAuthor}, MaxPeople) \ {<<>>}
    ELSE IF scope = "faults" THEN {<<>>, <<"u1">>}
    ELSE {RemotePeople[photo_id]}
DownloadOutcomes ==
    IF scope = "unit" THEN {"ok", "refused", "partial", "write_error"} ELSE {"ok"}
SubFetchOutcomes == IF scope = "faults" THEN Outcomes ELSE {"ok"}
WriteCanFail(name) == scope = "unit" \/ (scope = "faults" /\ name = "metadata.json")
\* The pages a listing request can return: up to MaxPageLen distinct items.
ListingPages ==
    {ph \in SeqsUpTo(PhotoIds, MaxPageLen) :
        \A i, j \in 1..Len(ph) : i # j => ph[i] # ph[j]}
KillPoints ==
    IF scope = "unit"
    THEN {"p_enter", "p_info", "p_geo", "p_meta", "p_comments", "p_comment_users",
          "p_faves", "p_fave_users", "p_exif", "p_sizes", "p_download",
          "p_save_sizes", "p_flag"}
    ELSE {"my_start", "fav_start", "w_fetch", "w_iter",
          "i_my", "i_fav", "i_albums", "i_cache"}

Stopped == {"idle", "done", "aborted", "killed"}
PipelineSteps == {"p_enter", "p_info", "p_geo", "p_meta", "p_comments",
                  "p_comment_users", "p_faves", "p_fave_users", "p_exif",
                  "p_sizes", "p_download", "p_save_sizes", "p_flag"}
WalkSteps == {"my_start", "fav_start", "w_fetch", "w_iter"}
IndexSteps == {"i_my", "i_fav", "i_albums", "i_cache"}
Running == PipelineSteps \cup WalkSteps \cup IndexSteps

cur == <<base_dir, photo_id>>
NoStop == [why |-> "none", at |-> "none"]
NoCall == [user |-> None, hit |-> FALSE, info |-> None]

InitState ==
    /\ pc = "idle"
    /\ run = 0
    /\ dirs = {}
    /\ fs = [d \in Dirs |-> <<>>]
    /\ doc = [d \in Dirs |-> <<>>]
    /\ rootfs = <<>>
    /\ USER_CACHE = <<>>
    /\ base_dir = PHOTOS_DIR
    /\ processed_ids = {}
    /\ page = 1
    /\ photos = <<>>
    /\ pages = 0
    /\ phases = <<>>
    /\ requests = <<>>
    /\ photo_id = "p1"
    /\ is_video = FALSE
    /\ pending = <<>>
    /\ sizes = <<>>
    /\ original = NoSize
    /\ metadata = {}
    /\ entries = <<>>
    /\ flagAtStart = {}
    /\ partialAtStart = {}
    /\ skipped = {}
    /\ invoked = {}
    /\ calls = {}
    /\ created = {}
    /\ failed = {}
    /\ userCalls = [u \in Users |-> 0]
    /\ userOutcome = [u \in Users |-> "none"]
    /\ resolved = {}
    /\ ret = NoCall
    /\ dl = "none"
    /\ stop = NoStop

NoSelection == [kind |-> "none", err |-> FALSE, idx |-> 0]

InitPure ==
    /\ sel_in = <<>>
    /\ sel_out = NoSelection
    /\ url_in = <<>>
    /\ ext_out = Unset

InitRetry ==
    /\ plan = <<>>
    /\ fn = "none"
    /\ attempt = 0
    /\ tries = 0
    /\ waits = <<>>
    /\ result = "none"

Init == scope = "run" /\ InitState /\ InitPure /\ InitRetry
InitUnit == scope = "unit" /\ InitState /\ InitPure /\ InitRetry

\* A variant with a per-photo boundary: the walker logs the failure and goes
\* on with the next item.
RaiseIsolated ==
    /\ pc' = "w_iter"
    /\ stop' = [why |-> "raise", at |-> pc]

\* An uncaught exception at the current step ends the process.
Raise ==
    /\ pc' = "aborted"
    /\ stop' = [why |-> "raise", at |-> pc]

\* An uncaught OSError of a local write at the current step ends the process.
RaiseIO ==
    /\ pc' = "aborted"
    /\ stop' = [why |-> "io", at |-> pc]

\* The process is killed from outside between two steps.
Kill ==
    /\ pc \in KillPoints
    /\ pc' = "killed"
    /\ stop' = [why |-> "kill", at |-> pc]
    /\ UNCHANGED <<diskVars, walkVars, ppVars, userVars, otherVars>>
    /\ UNCHANGED <<flagAtStart, partialAtStart, skipped, invoked, calls, created, failed, dl>>

\* __main__: a new process; the module-level USER_CACHE starts empty.
StartRun ==
    /\ pc \in Stopped
    /\ run < MaxRuns
    /\ run' = run + 1
    /\ pc' = "my_start"
    /\ USER_CACHE' = <<>>
    /\ userCalls' = [u \in Users |-> 0]
    /\ userOutcome' = [u \in Users |-> "none"]
    /\ resolved' = {}
    /\ ret' = NoCall
    /\ flagAtStart' = {d \in Dirs : HasFile(d, "complete.flag")}
    /\ partialAtStart' = {d \in dirs : ~HasFile(d, "complete.flag")}
    /\ skipped' = {}
    /\ invoked' = {}
    /\ calls' = {}
    /\ created' = {}
    /\ failed' = {}
    /\ dl' = "none"
    /\ stop' = NoStop
    /\ base_dir' = PHOTOS_DIR
    /\ processed_ids' = {}
    /\ page' = 1
    /\ photos' = <<>>
    /\ pages' = 0
    /\ phases' = <<>>
    /\ requests' = <<>>
    /\ photo_id' = "p1"
    /\ is_video' = FALSE
    /\ pending' = <<>>
    /\ sizes' = <<>>
    /\ original' = NoSize
    /\ metadata' = {}
    /\ entries' = <<>>
    /\ UNCHANGED <<scope, diskVars, pureVars, retryVars>>

\* ---------------------------------------------------- collection walkers
\* A variant without the walker's own filter.
OwnedSkipNever(id) == FALSE

\* if photo_id in processed_ids: continue
OwnedSkip(id) == id \in processed_ids

DownloadMyPhotosStart ==
    /\ pc = "my_start"
    /\ base_dir' = PHOTOS_DIR
    /\ processed_ids' = {p \in PhotoIds : <<PHOTOS_DIR, p>> \in dirs}
    /\ page' = 1
    /\ phases' = Append(phases, "owned")
    /\ requests' = <<>>
    /\ pc' = "w_fetch"
    /\ UNCHANGED <<photos, pages, diskVars, ppVars, userVars, histVars, otherVars>>

\* download_my_photos has returned, its locals are gone.
DownloadFavoritesStart ==
    /\ pc = "fav_start"
    /\ base_dir' = FAVORITES_DIR
    /\ page' = 1
    /\ pages' = 0
    /\ phases' = Append(phases, "favorites")
    /\ requests' = <<>>
    /\ pc' = "w_fetch"
    /\ UNCHANGED <<processed_ids, photos, diskVars, ppVars, userVars, histVars, otherVars>>

\* Where control goes when a walker's loop breaks.
AfterWalk == IF base_dir = PHOTOS_DIR THEN "fav_start" ELSE "i_my"

per_page == 100

\* get_photos / get_favorites (USER_ID, page=page, per_page=100), then the
\* emptiness test.
FetchPage ==
    /\ pc = "w_fetch"
    /\ \/ /\ Raise
          /\ UNCHANGED <<photos, pages, requests>>
       \/ /\ \E ph \in ListingPages, pg \in 0..MaxPages :
                /\ photos' = ph
                /\ pages' = pg
                /\ requests' = Append(requests, [page |-> page, per_page |-> per_page,
                                                 empty |-> ph = <<>>, pages |-> pg])
                /\ pc' = IF ph = <<>> THEN AfterWalk ELSE "w_iter"
          /\ UNCHANGED stop
    /\ UNCHANGED <<base_dir, processed_ids, page, phases, diskVars, ppVars, userVars, otherVars>>
    /\ UNCHANGED <<flagAtStart, partialAtStart, skipped, invoked, calls, created, failed, dl>>

\* One iteration of the for loop over the page's items.
Iterate ==
    /\ pc = "w_iter"
    /\ photos # <<>>
    /\ LET id == Head(photos) IN
        /\ photos' = Tail(photos)
        /\ IF base_dir = PHOTOS_DIR /\ OwnedSkip(id)
           THEN /\ pc' = "w_iter"
                /\ skipped' = skipped \cup {id}
                /\ UNCHANGED <<photo_id, invoked, created, failed, dl>>
           ELSE /\ pc' = "p_enter"
                /\ photo_id' = id
                /\ invoked' = invoked \cup {<<base_dir, id>>}
                /\ created' = {}
                /\ failed' = {}
                /\ dl' = "none"
                /\ UNCHANGED skipped
    /\ UNCHANGED <<base_dir, processed_ids, page, pages, phases, requests>>
    /\ UNCHANGED <<diskVars, userVars, otherVars>>
    /\ UNCHANGED <<is_video, pending, sizes, original, metadata, entries>>
    /\ UNCHANGED <<flagAtStart, partialAtStart, calls, stop>>

\* A variant that goes one page beyond the reported count.
LastPageStrict(pg, count) == pg > count

\* if page >= photos_data['photos']['pages']: break
LastPage(pg, count) == pg >= count

\* After the last item: stop at the reported last page, else the next page.
EndOfPage ==
    /\ pc = "w_iter"
    /\ photos = <<>>
    /\ IF LastPage(page, pages)
       THEN pc' = AfterWalk /\ page' = page
       ELSE pc' = "w_fetch" /\ page' = page + 1
    /\ UNCHANGED <<base_dir, processed_ids, photos, pages, phases, requests>>
    /\ UNCHANGED <<diskVars, ppVars, userVars, histVars, otherVars>>

\* ------------------------------------------------ photo archival pipeline
\* save_json(data, path): makedirs, open, dump.  A local I/O error is raised
\* to the caller after the directory, or a truncated file, may have been made.
SaveJson(name, content, data, next) ==
    \/ /\ dirs' = dirs \cup {cur}
       /\ fs' = Write(fs, cur, name, content)
       /\ doc' = Write(doc, cur, name, data)
       /\ created' = created \cup {name}
       /\ pc' = next
       /\ UNCHANGED stop
    \/ /\ WriteCanFail(name)
       /\ RaiseIO
       /\ \E effect \in {"none", "dir", "partial"} :
            /\ dirs' = IF effect = "none" THEN dirs ELSE dirs \cup {cur}
            /\ fs' = IF effect = "partial" THEN Write(fs, cur, name, "partial") ELSE fs
            /\ doc' = IF effect = "partial" THEN Write(doc, cur, name, {}) ELSE doc
            /\ created' = IF effect = "partial" THEN created \cup {name} ELSE created

\* get_cached_user_info(user_id), called for a truthy id only.
\* A variant that looks the user up remotely on every call.
CacheMissAlways(cache, user_id) == TRUE

\* if user_id not in USER_CACHE
CacheMiss(cache, user_id) == user_id \notin DOMAIN cache

GetCachedUserInfo(user_id, responses) ==
    /\ resolved' = resolved \cup {user_id}
    /\ IF CacheMiss(USER_CACHE, user_id)
       THEN \E response \in responses :
               /\ USER_CACHE' = CacheAfterMiss(USER_CACHE, user_id, response)
               /\ userCalls' = [userCalls EXCEPT ![user_id] = @ + 1]
               /\ userOutcome' = [userOutcome EXCEPT ![user_id] = response.kind]
       ELSE UNCHANGED <<USER_CACHE, userCalls, userOutcome>>

\* return USER_CACHE[user_id], with what the call was and how it was served
Returned(user_id) ==
    [user |-> user_id,
     hit |-> ~CacheMiss(USER_CACHE, user_id),
     info |-> USER_CACHE'[user_id]]

\* if author_id: user_info = get_cached_user_info(author_id)
Resolve(user_id) ==
    IF user_id = NoAuthor
    THEN UNCHANGED <<userVars, calls, failed>>
    ELSE /\ GetCachedUserInfo(user_id, RunResponses(user_id))
         /\ UNCHANGED ret
         /\ calls' = IF CacheMiss(USER_CACHE, user_id) THEN calls \cup {cur} ELSE calls
         /\ failed' = IF CacheMiss(USER_CACHE, user_id) /\ userOutcome'[user_id] = "fail"
                      THEN failed \cup {"get_user_info"}
                      ELSE failed

\* The locals of process_photo are gone when it returns.
ReturnToWalker ==
    /\ pc' = "w_iter"
    /\ photo_id' = "p1"
    /\ is_video' = FALSE
    /\ sizes' = <<>>
    /\ original' = NoSize
    /\ metadata' = {}
    /\ entries' = <<>>
    /\ dl' = "none"

\* A variant that never finds the marker.
AlreadyProcessedNever(d) == FALSE

\* os.path.exists(os.path.join(photo_dir, 'complete.flag'))
AlreadyProcessed(d) == HasFile(d, "complete.flag")

\* The resumability check at the head of process_photo.
ProcessPhotoEnter ==
    /\ pc = "p_enter"
    /\ IF AlreadyProcessed(cur)
       THEN /\ ReturnToWalker
            /\ created' = {}
       ELSE /\ pc' = "p_info"
            /\ UNCHANGED <<photo_id, is_video, sizes, original, metadata, entries, dl, created>>
    /\ UNCHANGED <<diskVars, walkVars, pending, userVars, otherVars>>
    /\ UNCHANGED <<flagAtStart, partialAtStart, skipped, invoked, calls, failed, stop>>

\* get_photo_info and the metadata built from it; the call is not guarded.
FetchInfo ==
    /\ pc = "p_info"
    /\ calls' = calls \cup {cur}
    /\ \/ /\ Raise
          /\ UNCHANGED is_video
       \/ /\ is_video' = (RemoteMedia[photo_id] = "video")
          /\ pc' = "p_geo"
          /\ UNCHANGED stop
    /\ UNCHANGED <<diskVars, walkVars, userVars, otherVars>>
    /\ UNCHANGED <<photo_id, pending, sizes, original, metadata, entries>>
    /\ UNCHANGED <<flagAtStart, partialAtStart, skipped, invoked, created, failed, dl>>

\* What a call of gateway function f does to its caller when the remote
\* method's outcome is o.
SubFetch(f, o) == GatewayOutcome(f, <<o>>).result

\* get_photo_geo and get_photo_contexts, and the location and albums keys of
\* the metadata dict: location stays None and albums stays [] on a default.
FetchGeoContexts ==
    /\ pc = "p_geo"
    /\ calls' = calls \cup {cur}
    /\ \E g \in SubFetchOutcomes, c \in SubFetchOutcomes :
        LET geo == SubFetch("get_photo_geo", g)
            ctx == SubFetch("get_photo_contexts", c)
        IN  IF geo = "raised" \/ ctx = "raised"
            THEN /\ Raise
                 /\ UNCHANGED <<metadata, failed>>
            ELSE /\ metadata' = (IF geo = "returned" THEN {"location"} ELSE {})
                                  \cup (IF ctx = "returned" THEN {"albums"} ELSE {})
                 /\ failed' = failed
                                \cup (IF geo = "default" THEN {"get_photo_geo"} ELSE {})
                                \cup (IF ctx = "default" THEN {"get_photo_contexts"} ELSE {})
                 /\ pc' = "p_meta"
                 /\ UNCHANGED stop
    /\ UNCHANGED <<diskVars, walkVars, userVars, otherVars>>
    /\ UNCHANGED <<photo_id, is_video, pending, sizes, original, entries>>
    /\ UNCHANGED <<flagAtStart, partialAtStart, skipped, invoked, created, dl>>

\* A variant that marks the photo complete as soon as its metadata is saved.
SaveMetadataMarked ==
    /\ pc = "p_meta"
    /\ dirs' = dirs \cup {cur}
    /\ fs' = Write(Write(fs, cur, "metadata.json", "valid"), cur, "complete.flag", "timestamp")
    /\ doc' = Write(doc, cur, "metadata.json", metadata)
    /\ created' = created \cup {"metadata.json", "complete.flag"}
    /\ pc' = "p_comments"
    /\ UNCHANGED <<rootfs, walkVars, ppVars, userVars, otherVars>>
    /\ UNCHANGED <<flagAtStart, partialAtStart, skipped, invoked, calls, failed, dl, stop>>

\* save_json(metadata, .../metadata.json), line 161
SaveMetadata ==
    /\ pc = "p_meta"
    /\ SaveJson("metadata.json", "valid", metadata, "p_comments")
    /\ UNCHANGED <<rootfs, walkVars, ppVars, userVars, otherVars>>
    /\ UNCHANGED <<flagAtStart, partialAtStart, skipped, invoked, calls, failed, dl>>

\* A list file holds entries or is the empty list.
ListData(list) == IF list # <<>> THEN {"entries"} ELSE {}

\* get_photo_comments / get_photo_favorites: the user ids of the returned
\* items, none when the function returned its default.
FetchPeople(f, next) ==
    /\ calls' = calls \cup {cur}
    /\ entries' = <<>>
    /\ \E o \in SubFetchOutcomes :
        LET r == SubFetch(f, o) IN
        IF r = "raised"
        THEN /\ Raise
             /\ UNCHANGED <<pending, failed>>
        ELSE /\ \E people \in (IF r = "default" THEN {<<>>} ELSE PeopleLists) :
                    pending' = people
             /\ failed' = IF r = "default" THEN failed \cup {f} ELSE failed
             /\ pc' = next
             /\ UNCHANGED stop
    /\ UNCHANGED <<diskVars, walkVars, userVars, otherVars>>
    /\ UNCHANGED <<photo_id, is_video, sizes, original, metadata>>
    /\ UNCHANGED <<flagAtStart, partialAtStart, skipped, invoked, created, dl>>

FetchComments ==
    /\ pc = "p_comments"
    /\ FetchPeople("get_photo_comments", "p_comment_users")

\* One iteration of a loop that enriches a comment or a favorite and appends
\* it to the list.
ResolveNext(at) ==
    /\ pc = at
    /\ pending # <<>>
    /\ Resolve(Head(pending))
    /\ entries' = Append(entries, Head(pending))
    /\ pending' = Tail(pending)
    /\ pc' = pc
    /\ UNCHANGED <<diskVars, walkVars, otherVars>>
    /\ UNCHANGED <<photo_id, is_video, sizes, original, metadata>>
    /\ UNCHANGED <<flagAtStart, partialAtStart, skipped, invoked, created, dl, stop>>

ResolveCommentAuthor == ResolveNext("p_comment_users")

SaveComments ==
    /\ pc = "p_comment_users"
    /\ pending = <<>>
    /\ SaveJson("comments.json", "valid", ListData(entries), "p_faves")
    /\ UNCHANGED <<rootfs, walkVars, ppVars, userVars, otherVars>>
    /\ UNCHANGED <<flagAtStart, partialAtStart, skipped, invoked, calls, failed, dl>>

FetchFavorites ==
    /\ pc = "p_faves"
    /\ FetchPeople("get_photo_favorites", "p_fave_users")

ResolveFavoritePerson == ResolveNext("p_fave_users")

SaveFavorites ==
    /\ pc = "p_fave_users"
    /\ pending = <<>>
    /\ SaveJson("favorites.json", "valid", ListData(entries), "p_exif")
    /\ UNCHANGED <<rootfs, walkVars, ppVars, userVars, otherVars>>
    /\ UNCHANGED <<flagAtStart, partialAtStart, skipped, invoked, calls, failed, dl>>

\* get_photo_exif, the exif list built from its answer (empty on a default)
\* and the write of exif.json.
FetchExif ==
    /\ pc = "p_exif"
    /\ calls' = calls \cup {cur}
    /\ entries' = <<>>
    /\ \E o \in SubFetchOutcomes :
        LET r == SubFetch("get_photo_exif", o) IN
        IF r = "raised"
        THEN /\ Raise
             /\ UNCHANGED <<dirs, fs, doc, created, failed>>
        ELSE /\ failed' = IF r = "default" THEN failed \cup {"get_photo_exif"} ELSE failed
             /\ SaveJson("exif.json", "valid",
                         IF r = "returned" THEN {"entries"} ELSE {}, "p_sizes")
    /\ UNCHANGED <<rootfs, walkVars, userVars, otherVars>>
    /\ UNCHANGED <<photo_id, is_video, pending, sizes, original, metadata>>
    /\ UNCHANGED <<flagAtStart, partialAtStart, skipped, invoked, dl>>

\* get_photo_sizes (not guarded) and the choice of the size to download:
\* the widest thumbnail of a video, the original of a photo.
FetchSizes ==
    /\ pc = "p_sizes"
    /\ calls' = calls \cup {cur}
    /\ \/ /\ Raise
          /\ UNCHANGED <<sizes, original>>
       \/ \E sl \in SizeLists :
            LET sel == IF is_video THEN SelectThumb(sl) ELSE SelectOriginal(sl) IN
            IF sel.err
            THEN /\ Raise
                 /\ UNCHANGED <<sizes, original>>
            ELSE /\ sizes' = sl
                 /\ original' = IF sel.idx = 0 THEN NoSize ELSE sl[sel.idx]
                 /\ pc' = IF sel.idx # 0 THEN "p_download"
                          ELSE IF is_video THEN "p_save_sizes" ELSE "p_flag"
                 /\ UNCHANGED stop
    /\ UNCHANGED <<diskVars, walkVars, userVars, otherVars>>
    /\ UNCHANGED <<photo_id, is_video, pending, metadata, entries>>
    /\ UNCHANGED <<flagAtStart, partialAtStart, skipped, invoked, created, failed, dl>>

\* The file the binary is downloaded to.
DownloadName == IF is_video THEN "poster.jpg" ELSE OriginalName(UrlExt(original.source))

\* download_photo(url, path): every exception is caught and turned into False.
\* The request can fail before the file is opened ("refused"); after it the
\* stream can fail ("partial") or f.write can raise OSError ("write_error").
DownloadPhoto ==
    /\ pc = "p_download"
    /\ \E r \in DownloadOutcomes :
        /\ dl' = r
        /\ IF r = "refused"
           THEN UNCHANGED <<dirs, fs, created>>
           ELSE /\ dirs' = dirs \cup {cur}
                /\ fs' = Write(fs, cur, DownloadName, IF r = "ok" THEN "complete" ELSE "partial")
                /\ created' = created \cup {DownloadName}
    /\ pc' = "p_save_sizes"
    /\ UNCHANGED <<doc, rootfs, walkVars, ppVars, userVars, otherVars>>
    /\ UNCHANGED <<flagAtStart, partialAtStart, skipped, invoked, calls, failed, stop>>

\* The document written to sizes.json.
SizesData ==
    IF is_video THEN {"is_video", "video_urls", "note", "all_sizes"}
    ELSE {"original", "all_sizes"}

\* save_json(..., sizes.json); for a video, metadata['video_info'] is then
\* set on the dict in memory (line 265).
SaveSizes ==
    /\ pc = "p_save_sizes"
    /\ SaveJson("sizes.json", IF is_video THEN "is_video" ELSE "original", SizesData, "p_flag")
    /\ metadata' = IF is_video /\ pc' = "p_flag"
                   THEN metadata \cup {"video_info"}
                   ELSE metadata
    /\ UNCHANGED <<rootfs, walkVars, userVars, otherVars>>
    /\ UNCHANGED <<photo_id, is_video, pending, sizes, original, entries>>
    /\ UNCHANGED <<flagAtStart, partialAtStart, skipped, invoked, calls, failed, dl>>

\* Mark as complete, then return to the walker.  A failing write can leave
\* an empty file behind.
WriteFlag ==
    /\ pc = "p_flag"
    /\ \/ /\ fs' = Write(fs, cur, "complete.flag", "timestamp")
          /\ created' = {}
          /\ ReturnToWalker
          /\ UNCHANGED stop
       \/ /\ WriteCanFail("complete.flag")
          /\ RaiseIO
          /\ \E effect \in {"none", "empty"} :
               /\ fs' = IF effect = "empty" THEN Write(fs, cur, "complete.flag", "empty") ELSE fs
               /\ created' = IF effect = "empty" THEN created \cup {"complete.flag"} ELSE created
          /\ UNCHANGED <<photo_id, is_video, sizes, original, metadata, entries, dl>>
    /\ UNCHANGED <<dirs, doc, rootfs, walkVars, userVars, otherVars>>
    /\ UNCHANGED pending
    /\ UNCHANGED <<flagAtStart, partialAtStart, skipped, invoked, calls, failed>>

\* ---------------------------------------------------------- index builder
\* The orders os.listdir can return the members of S in.
Orders(S) ==
    {o \in [1..Cardinality(S) -> S] : \A i, j \in 1..Cardinality(S) : i # j => o[i] # o[j]}

\* A variant that indexes completed photos only.
IndexedIfComplete(base, id) ==
    HasFile(<<base, id>>, "metadata.json") /\ HasFile(<<base, id>>, "complete.flag")

\* if os.path.exists(metadata_path)
Indexed(base, id) == HasFile(<<base, id>>, "metadata.json")

\* The ids of the listed directories that get an index entry, in listing order.
IndexEntries(base, listing) == SelectSeq(listing, LAMBDA id : Indexed(base, id))

\* One of the two index loops and its save_json; json.load raises on a
\* truncated metadata file.
BuildIndex(base, name, next) ==
    \/ /\ \E id \in PhotoIds : Indexed(base, id) /\ fs[<<base, id>>]["metadata.json"] = "partial"
       /\ Raise
       /\ UNCHANGED rootfs
    \/ /\ \A id \in PhotoIds : Indexed(base, id) => fs[<<base, id>>]["metadata.json"] = "valid"
       /\ \E listing \in Orders({id \in PhotoIds : <<base, id>> \in dirs}) :
            \/ /\ rootfs' = (name :> IndexEntries(base, listing)) @@ rootfs
               /\ pc' = next
               /\ UNCHANGED stop
            \/ /\ RaiseIO
               /\ UNCHANGED rootfs

\* download_favorites has returned, its locals are gone; create_index is
\* entered and builds the owned-photos index.
IndexMyPhotos ==
    /\ pc = "i_my"
    /\ phases' = Append(phases, "index")
    /\ page' = 1
    /\ pages' = 0
    /\ requests' = <<>>
    /\ BuildIndex(PHOTOS_DIR, "my_photos_index.json", "i_fav")
    /\ UNCHANGED <<base_dir, processed_ids, photos>>
    /\ UNCHANGED <<dirs, fs, doc, ppVars, userVars, otherVars>>
    /\ UNCHANGED <<flagAtStart, partialAtStart, skipped, invoked, calls, created, failed, dl>>

IndexFavorites ==
    /\ pc = "i_fav"
    /\ BuildIndex(FAVORITES_DIR, "favorites_index.json", "i_albums")
    /\ UNCHANGED <<dirs, fs, doc, walkVars, ppVars, userVars, otherVars>>
    /\ UNCHANGED <<flagAtStart, partialAtStart, skipped, invoked, calls, created, failed, dl>>

\* get_photosets (not guarded) and albums_index.json.
IndexAlbums ==
    /\ pc = "i_albums"
    /\ \/ /\ rootfs' = ("albums_index.json" :> <<"albums">>) @@ rootfs
          /\ pc' = "i_cache"
          /\ UNCHANGED stop
       \/ /\ Raise
          /\ UNCHANGED rootfs
    /\ UNCHANGED <<dirs, fs, doc, walkVars, ppVars, userVars, otherVars>>
    /\ UNCHANGED <<flagAtStart, partialAtStart, skipped, invoked, calls, created, failed, dl>>

\* if USER_CACHE: save_json(USER_CACHE, users_cache.json)
SaveUserCache ==
    /\ pc = "i_cache"
    /\ IF USER_CACHE # <<>>
       THEN \/ /\ rootfs' = ("users_cache.json" :> USER_CACHE) @@ rootfs
               /\ pc' = "done"
               /\ UNCHANGED stop
            \/ /\ RaiseIO
               /\ UNCHANGED rootfs
       ELSE /\ pc' = "done"
            /\ UNCHANGED <<rootfs, stop>>
    /\ UNCHANGED <<dirs, fs, doc, walkVars, ppVars, userVars, otherVars>>
    /\ UNCHANGED <<flagAtStart, partialAtStart, skipped, invoked, calls, created, failed, dl>>

Next ==
    \/ StartRun
    \/ Kill
    \/ DownloadMyPhotosStart
    \/ DownloadFavoritesStart
    \/ FetchPage
    \/ Iterate
    \/ EndOfPage
    \/ ProcessPhotoEnter
    \/ FetchInfo
    \/ FetchGeoContexts
    \/ SaveMetadata
    \/ FetchComments
    \/ ResolveCommentAuthor
    \/ SaveComments
    \/ FetchFavorites
    \/ ResolveFavoritePerson
    \/ SaveFavorites
    \/ FetchExif
    \/ FetchSizes
    \/ DownloadPhoto
    \/ SaveSizes
    \/ WriteFlag
    \/ IndexMyPhotos
    \/ IndexFavorites
    \/ IndexAlbums
    \/ SaveUserCache

Spec == Init /\ [][Next]_vars

\* ------------------------------------------- process_photo on its own
\* process_photo(photo, FAVORITES_DIR, is_favorite=True) for any photo, as
\* download_favorites calls it: for every item, whatever is on disk.
UnitCall ==
    /\ pc \in {"my_start", "w_iter"}
    /\ \E id \in PhotoIds :
        /\ base_dir' = FAVORITES_DIR
        /\ photo_id' = id
        /\ invoked' = invoked \cup {<<FAVORITES_DIR, id>>}
    /\ created' = {}
    /\ failed' = {}
    /\ dl' = "none"
    /\ pc' = "p_enter"
    /\ UNCHANGED <<processed_ids, page, photos, pages, phases, requests>>
    /\ UNCHANGED <<diskVars, userVars, otherVars>>
    /\ UNCHANGED <<is_video, pending, sizes, original, metadata, entries>>
    /\ UNCHANGED <<flagAtStart, partialAtStart, skipped, calls, stop>>

NextUnit ==
    \/ StartRun
    \/ Kill
    \/ UnitCall
    \/ ProcessPhotoEnter
    \/ FetchInfo
    \/ FetchGeoContexts
    \/ SaveMetadata
    \/ FetchComments
    \/ ResolveCommentAuthor
    \/ SaveComments
    \/ FetchFavorites
    \/ ResolveFavoritePerson
    \/ SaveFavorites
    \/ FetchExif
    \/ FetchSizes
    \/ DownloadPhoto
    \/ SaveSizes
    \/ WriteFlag

SpecUnit == InitUnit /\ [][NextUnit]_vars

\* process_photo with remote calls that fail inside the guarded gateway
\* functions.
InitFaults == scope = "faults" /\ InitState /\ InitPure /\ InitRetry

NextFaults ==
    \/ StartRun
    \/ UnitCall
    \/ ProcessPhotoEnter
    \/ FetchInfo
    \/ FetchGeoContexts
    \/ SaveMetadata
    \/ FetchComments
    \/ ResolveCommentAuthor
    \/ SaveComments
    \/ FetchFavorites
    \/ ResolveFavoritePerson
    \/ SaveFavorites
    \/ FetchExif
    \/ FetchSizes
    \/ DownloadPhoto
    \/ SaveSizes
    \/ WriteFlag

SpecFaults == InitFaults /\ [][NextFaults]_vars

\* ------------------------------------------ the resolver on its own
\* get_cached_user_info(user_id) for any user id, in a running process.
ResolveCall ==
    /\ pc = "my_start"
    /\ \E user_id \in Users :
        /\ GetCachedUserInfo(user_id, UserInfoResponses(user_id))
        /\ ret' = Returned(user_id)
    /\ UNCHANGED <<pc, diskVars, walkVars, ppVars, histVars, otherVars>>

InitUsers == scope = "users" /\ InitState /\ InitPure /\ InitRetry
NextUsers == StartRun \/ ResolveCall
SpecUsers == InitUsers /\ [][NextUsers]_vars

\* ------------------------------------- the size selection on its own
SelLabels == {"Original", "Large", "Medium"}
SelWidths == {AbsentW, NullW, 400, 800, 1200}
SelSizes == [label : SelLabels, width : SelWidths]

progVars == <<pc, diskVars, walkVars, ppVars, userVars, histVars>>

InitSelect ==
    /\ scope = "select"
    /\ InitState
    /\ InitRetry
    /\ sel_in \in SeqsUpTo(SelSizes, MaxSizes)
    /\ sel_out = NoSelection
    /\ url_in = <<>>
    /\ ext_out = Unset

\* The non-video branch of process_photo applied to sel_in.
SelectForPhoto ==
    /\ sel_out.kind = "none"
    /\ sel_out' = [kind |-> "photo"] @@ SelectOriginal(sel_in)
    /\ UNCHANGED <<progVars, scope, run, sel_in, url_in, ext_out, retryVars>>

\* The video branch of process_photo applied to sel_in.
SelectForVideo ==
    /\ sel_out.kind = "none"
    /\ sel_out' = [kind |-> "video"] @@ SelectThumb(sel_in)
    /\ UNCHANGED <<progVars, scope, run, sel_in, url_in, ext_out, retryVars>>

NextSelect == SelectForPhoto \/ SelectForVideo
SpecSelect == InitSelect /\ [][NextSelect]_vars

\* ---------------------------------- the extension parsing on its own
\* The source URLs: a host, then a path and perhaps a query string.
SourceUrls ==
    {u \in {<<"x", "/">> \o t : t \in SeqsUpTo(Tokens, MaxUrlLen)} : WellFormedUrl(u)}

InitExt ==
    /\ scope = "ext"
    /\ InitState
    /\ InitRetry
    /\ sel_in = <<>>
    /\ sel_out = NoSelection
    /\ url_in \in SourceUrls
    /\ ext_out = Unset

\* Lines 290-294 of process_photo applied to url_in.
ParseExt ==
    /\ ext_out = Unset
    /\ ext_out' = UrlExt(url_in)
    /\ UNCHANGED <<progVars, scope, run, sel_in, sel_out, url_in, retryVars>>

NextExt == ParseExt
SpecExt == InitExt /\ [][NextExt]_vars

\* ------------------------------- the gateway and the retry decorator
GatewayCall ==
    /\ fn = "none"
    /\ \E f \in Gateways :
        LET out == GatewayOutcome(f, plan) IN
        /\ fn' = f
        /\ tries' = out.calls
        /\ result' = out.result
    /\ UNCHANGED <<plan, attempt, waits>>
    /\ UNCHANGED <<progVars, scope, run, pureVars>>

max_retries == 3

\* if '201' in str(e) or 'not currently available' in str(e)
Transient(o) == o = "unavailable"

\* A variant that lets the last attempt wait and continue too.
MayRetryAlways(a) == TRUE

\* if attempt < max_retries - 1
MayRetry(a) == a < max_retries - 1

\* wait_time = (attempt + 1) * 5
BackoffWait(a) == (a + 1) * 5
FlatWait == 2

\* wrapper(*args, **kwargs) is entered for a decorated function.
WrapperCall ==
    /\ fn = "none"
    /\ fn' = WrappedFunc
    /\ attempt' = 0
    /\ UNCHANGED <<plan, tries, waits, result>>
    /\ UNCHANGED <<progVars, scope, run, pureVars>>

\* One iteration of for attempt in range(max_retries): the call of func and
\* its except clauses; when the loop runs out, return None.
WrapperTry ==
    /\ fn = WrappedFunc
    /\ result = "none"
    /\ tries' = tries + 1
    /\ LET o == plan[tries + 1]
           retry == /\ o \in {"unavailable", "exception"}
                    /\ MayRetry(attempt)
       IN  /\ waits' = IF ~retry THEN waits
                       ELSE IF Transient(o) THEN Append(waits, BackoffWait(attempt))
                       ELSE Append(waits, FlatWait)
           /\ attempt' = IF retry THEN attempt + 1 ELSE attempt
           /\ result' = IF o = "ok" THEN "returned"
                        ELSE IF ~retry THEN "raised"
                        ELSE IF attempt + 1 < max_retries THEN "none"
                        ELSE "returned_None"
    /\ UNCHANGED <<plan, fn>>
    /\ UNCHANGED <<progVars, scope, run, pureVars>>

InitGateway ==
    /\ scope = "retry"
    /\ InitState
    /\ InitPure
    /\ plan \in [1..MaxPlan -> Outcomes]
    /\ fn = "none"
    /\ attempt = 0
    /\ tries = 0
    /\ waits = <<>>
    /\ result = "none"

NextGateway == GatewayCall \/ WrapperCall \/ WrapperTry
SpecGateway == InitGateway /\ [][NextGateway]_vars

\* ================================================================ claims

\* C1: complete.flag is the last thing a process_photo invocation writes.
\* While an invocation that passed the resumability check is in progress,
\* and after it ended by an uncaught failure (info fetch, sizes fetch, a
\* failing JSON write) or was killed before its final step, the photo's
\* directory holds no complete.flag.
BeforeFlag == PipelineSteps \ {"p_enter", "p_flag"}
EndedBeforeFlag ==
    /\ pc \in {"aborted", "killed"}
    /\ \/ stop.at \in BeforeFlag
       \/ stop.at = "p_flag" /\ stop.why = "kill"
C1_NoMarkerBeforeLastStep ==
    (pc \in BeforeFlag \cup {"p_flag"} \/ EndedBeforeFlag)
        => ~HasFile(cur, "complete.flag")
C1_Witness ==
    /\ EndedBeforeFlag
    /\ stop.at \in {"p_sizes", "p_save_sizes"}
    /\ stop.why = "raise"
    /\ HasFile(cur, "exif.json")

\* C2: a photo whose directory an interrupted earlier run left without
\* complete.flag is, when a walker of the next run lists it, handed to the
\* pipeline (never skipped), and ends a run that finishes with a
\* complete.flag.
C2_ResumeRedoesUnit ==
    /\ \A id \in skipped : <<PHOTOS_DIR, id>> \notin partialAtStart
    /\ pc = "done" =>
         \A d \in partialAtStart :
            (d \in invoked \/ (d[1] = PHOTOS_DIR /\ d[2] \in skipped))
                => HasFile(d, "complete.flag")

\* C3: an owned photo that had complete.flag when the run started is never
\* handed to the pipeline by the owned-photos walk and no per-photo remote
\* call is made for it, however often the listing returns it.
C3_CompleteOwnedNotRevisited ==
    \A id \in PhotoIds :
        <<PHOTOS_DIR, id>> \in flagAtStart
            => /\ <<PHOTOS_DIR, id>> \notin invoked
               /\ <<PHOTOS_DIR, id>> \notin calls
C3_Witness ==
    /\ pc = "fav_start"
    /\ page = 2
    /\ \E id \in skipped : <<PHOTOS_DIR, id>> \in flagAtStart

\* C4: when the size list of a non-video photo has a size labeled Original,
\* the selected size is labeled Original, wherever it stands in the list and
\* whatever the widths of the other sizes.
HasOriginal(sl) == \E i \in 1..Len(sl) : sl[i].label = "Original"
C4_OriginalSelected ==
    (sel_out.kind = "photo" /\ HasOriginal(sel_in))
        => /\ ~sel_out.err
           /\ sel_out.idx \in 1..Len(sel_in)
           /\ sel_in[sel_out.idx].label = "Original"
C4_Witness ==
    /\ sel_out.kind = "photo"
    /\ Len(sel_in) = 3
    /\ sel_in[1].width = 1200 /\ sel_in[1].label = "Large"
    /\ sel_in[3].width = 400 /\ sel_in[3].label = "Original"
    /\ sel_out.idx = 3

\* C5: when the non-empty size list of a non-video photo has no Original,
\* the selection raises no error and picks a size of maximal width, a
\* missing (absent or null) width counting as 0.
WidthOrZero(s) == IF s.width \in {AbsentW, NullW} THEN 0 ELSE s.width
C5_WidestSelected ==
    (sel_out.kind = "photo" /\ Len(sel_in) > 0 /\ ~HasOriginal(sel_in))
        => /\ ~sel_out.err
           /\ sel_out.idx \in 1..Len(sel_in)
           /\ \A j \in 1..Len(sel_in) :
                WidthOrZero(sel_in[sel_out.idx]) >= WidthOrZero(sel_in[j])

\* C6: the extension is that of the URL's final path segment with the query
\* string stripped when it is one of jpg, jpeg, png, gif, and jpg otherwise.
StripQuery(u) == BeforeFirst(u, "?")
FinalSegment(u) == AfterLast(StripQuery(u), "/")
SegmentExt(u) ==
    LET seg == FinalSegment(u)
        e == IF \E i \in 1..Len(seg) : seg[i] = "." THEN AfterLast(seg, ".") ELSE <<>>
    IN  IF Len(e) = 1 /\ e[1] \in AllowedExts THEN e[1] ELSE "jpg"
C6_ExtOfFinalSegment ==
    ext_out # Unset => ext_out = SegmentExt(url_in)

\* C7: in a run, the number of remote user-info calls made for a user id is
\* one if the id was resolved at least once and zero otherwise, whatever the
\* first lookup returned, and a cached entry is never changed or removed
\* while the process lives.
C7_OneRemoteCallPerUser ==
    /\ [](\A u \in Users : userCalls[u] = IF u \in resolved THEN 1 ELSE 0)
    /\ [][run' = run =>
            \A u \in DOMAIN USER_CACHE :
                u \in DOMAIN USER_CACHE' /\ USER_CACHE'[u] = USER_CACHE[u]]_vars
C7_Witness ==
    /\ ret.user \in Users
    /\ ret.hit
    /\ userOutcome[ret.user] = "fail"
    /\ userCalls[ret.user] = 1

\* C8: when the remote user-info call fails or returns no person record, the
\* resolver caches and returns a UserInfo whose display_name and username
\* are the user id, whose avatar is the placeholder and whose profile URL is
\* built from the user id.
IsFallbackFor(info, u) ==
    /\ info.display_name = u
    /\ info.username = u
    /\ info.avatar_url = PlaceholderAvatar
    /\ info.profile_url = <<"people", u>>
C8_FallbackOnFailure ==
    /\ \A u \in Users :
          userOutcome[u] \in {"fail", "noperson"}
              => u \in DOMAIN USER_CACHE /\ IsFallbackFor(USER_CACHE[u], u)
    /\ (ret.user \in Users /\ userOutcome[ret.user] \in {"fail", "noperson"})
          => /\ IsFallbackFor(ret.info, ret.user)
             /\ ret.info = USER_CACHE[ret.user]
C8_Witness ==
    /\ ret.user \in Users
    /\ ~ret.hit
    /\ userOutcome[ret.user] = "noperson"
    /\ \E u \in Users : userOutcome[u] = "fail"

\* C9: an invocation for a video creates no original.* file, creates
\* poster.jpg exactly when the size list is non-empty and the download of
\* the widest size succeeds, and has written sizes.json with is_video true
\* when it comes to write the completion marker.
C9_VideoFiles ==
    /\ (is_video /\ pc \in PipelineSteps \cup {"aborted", "killed"})
          => created \cap OriginalNames = {}
    /\ (is_video /\ pc = "p_flag")
          => /\ ("poster.jpg" \in created) <=> (sizes # <<>> /\ dl = "ok")
             /\ "sizes.json" \in created
             /\ fs[cur]["sizes.json"] = "is_video"

\* C10: after an index build, each index has exactly one entry per
\* subdirectory holding a metadata file, with or without a completion marker.
IndexMatches(name, base) ==
    /\ name \in DOMAIN rootfs
    /\ Len(rootfs[name])
         = Cardinality({id \in PhotoIds : HasFile(<<base, id>>, "metadata.json")})
    /\ \A id \in PhotoIds :
          HasFile(<<base, id>>, "metadata.json")
              => Cardinality({i \in 1..Len(rootfs[name]) : rootfs[name][i] = id}) = 1
C10_IndexLength ==
    /\ pc \in {"i_fav", "i_albums", "i_cache", "done"}
          => IndexMatches("my_photos_index.json", PHOTOS_DIR)
    /\ pc \in {"i_albums", "i_cache", "done"}
          => IndexMatches("favorites_index.json", FAVORITES_DIR)
C10_Witness ==
    /\ pc = "done"
    /\ Len(rootfs["my_photos_index.json"]) = 2
    /\ Len(rootfs["favorites_index.json"]) = 1
    /\ \E id \in PhotoIds : /\ HasFile(<<PHOTOS_DIR, id>>, "metadata.json")
                            /\ ~HasFile(<<PHOTOS_DIR, id>>, "complete.flag")
    /\ \E id \in PhotoIds : HasFile(<<PHOTOS_DIR, id>>, "complete.flag")

\* C11: when the remote method of a gateway function fails once with the
\* temporarily-unavailable error and would succeed on the next call, the
\* gateway function calls it a second time and returns the response.
C11_GatewayRetriesTransient ==
    (fn \in Gateways /\ plan[1] = "unavailable" /\ plan[2] = "ok")
        => /\ tries = 2
           /\ result = "returned"

\* C12: a failure of the comments, favorites, EXIF, geolocation, contexts or
\* user-info remote call never ends the invocation: no uncaught exception
\* comes from the steps that make these calls, the file written after a
\* failed call holds the default (empty list, no location, no albums, the
\* fallback user), and every invocation that returns has left complete.flag.
SubFetchSteps == {"p_geo", "p_comments", "p_comment_users", "p_faves",
                  "p_fave_users", "p_exif"}
C12_SubFetchFailuresSwallowed ==
    /\ (pc = "aborted" /\ stop.why = "raise") => stop.at \notin SubFetchSteps
    /\ pc = "p_flag" =>
         /\ "get_photo_geo" \in failed => "location" \notin doc[cur]["metadata.json"]
         /\ "get_photo_contexts" \in failed => "albums" \notin doc[cur]["metadata.json"]
         /\ "get_photo_comments" \in failed => doc[cur]["comments.json"] = {}
         /\ "get_photo_favorites" \in failed => doc[cur]["favorites.json"] = {}
         /\ "get_photo_exif" \in failed => doc[cur]["exif.json"] = {}
         /\ "get_user_info" \in failed =>
                \E u \in DOMAIN USER_CACHE : IsFallbackFor(USER_CACHE[u], u)
    /\ pc = "w_iter" => \A d \in invoked : HasFile(d, "complete.flag")
C12_Witness ==
    /\ pc = "w_iter"
    /\ failed = {"get_photo_geo", "get_photo_contexts", "get_photo_comments",
                 "get_user_info", "get_photo_exif"}
    /\ \E d \in invoked :
         /\ HasFile(d, "complete.flag")
         /\ doc[d]["metadata.json"] = {}
         /\ doc[d]["comments.json"] = {}
         /\ doc[d]["favorites.json"] = {"entries"}
         /\ doc[d]["exif.json"] = {}

\* C13: the metadata.json of a video whose directory holds complete.flag
\* contains the video advisory (video_info).
C13_VideoAdvisoryPersisted ==
    \A d \in Dirs :
        (HasFile(d, "complete.flag") /\ RemoteMedia[d[2]] = "video")
            => "video_info" \in doc[d]["metadata.json"]

\* C14: a photo directory that holds complete.flag also holds metadata.json,
\* comments.json, favorites.json, exif.json and sizes.json.
JsonFiles == {"metadata.json", "comments.json", "favorites.json", "exif.json",
              "sizes.json"}
C14_FlagImpliesJsonFiles ==
    \A d \in Dirs :
        HasFile(d, "complete.flag") => \A name \in JsonFiles : HasFile(d, name)

\* C15: when the binary download of an invocation fails, the invocation is
\* not ended by it (it goes on to sizes.json and complete.flag, and only a
\* failing local write can still end it) and the binary file is absent from
\* the photo's directory.
C15_DownloadFailureNotFatal ==
    /\ (dl \in {"refused", "partial"} /\ pc \in {"p_save_sizes", "p_flag"})
          => ~HasFile(cur, DownloadName)
    /\ (dl \in {"refused", "partial"} /\ pc = "aborted") => stop.why = "io"
    /\ (dl \in {"refused", "partial"} /\ pc = "p_flag") => HasFile(cur, "sizes.json")

\* C16: a local I/O failure while an invocation writes a JSON file or the
\* downloaded binary of the photo directory ends the run, and the photo's
\* directory is left without complete.flag.
C16_LocalIOFailureEndsRun ==
    /\ dl = "write_error" => pc = "aborted"
    /\ (pc = "aborted" /\ stop.why = "io" /\ stop.at \in PipelineSteps \ {"p_flag"})
          => ~HasFile(cur, "complete.flag")

\* C17: an uncaught failure ends the run where it happens: afterwards no
\* photo is handed to the pipeline, no remote call or write is made and no
\* further part of the run is entered.  The parts are entered in the order
\* owned-photos walk, favorites walk, index build, so a failure in the
\* pipeline during the owned-photos walk leaves the favorites walk and the
\* index build unentered.
RunOrder == <<"owned", "favorites", "index">>
C17_NoPhotoIsolation ==
    /\ [](stop.why \in {"raise", "io"} => pc = "aborted")
    /\ [](\E n \in 0..3 : phases = SubSeq(RunOrder, 1, n))
    /\ []((pc = "aborted" /\ stop.at \in PipelineSteps /\ base_dir = PHOTOS_DIR)
            => phases = <<"owned">>)
    /\ [][(stop.why \in {"raise", "io"} /\ run' = run)
            => UNCHANGED <<invoked, calls, phases, requests, diskVars>>]_vars
C17_Witness ==
    /\ pc = "aborted"
    /\ stop.why = "raise"
    /\ stop.at = "p_sizes"
    /\ base_dir = PHOTOS_DIR
    /\ photos # <<>>
    /\ Head(photos) \notin processed_ids
    /\ <<PHOTOS_DIR, Head(photos)>> \notin invoked
    /\ phases = <<"owned">>

\* C18: under the retry wrapper, a call whose every attempt fails with the
\* temporarily-unavailable error is attempted at most 3 times, waits 5s, 10s
\* and 15s in that order, and ends by raising the failure to the caller.
Ended == fn = WrappedFunc /\ result # "none"
C18_TransientBackoff ==
    (Ended /\ \A i \in 1..MaxPlan : plan[i] = "unavailable")
        => /\ tries <= 3
           /\ waits = <<5, 10, 15>>
           /\ result = "raised"

\* C19 as stated: under the retry wrapper, a call whose every attempt fails
\* with an exception other than the temporarily-unavailable error (another
\* error reported by the remote API included) is attempted 3 times with a
\* wait of 2s between attempts and raises after the third failure.
C19_OtherExceptionsRetried ==
    (Ended /\ \A i \in 1..tries : plan[i] \in {"flickr_error", "exception"})
        => /\ tries = 3
           /\ waits = <<2, 2>>
           /\ result = "raised"

\* C19 as amended: a call whose every attempt fails with an exception that is
\* not a FlickrError is attempted 3 times, waits 2s after the first and after
\* the second failure, and raises after the third; an attempt that fails with
\* a FlickrError other than the temporarily-unavailable one is the last, and
\* the error is raised at once.
C19_NonFlickrExceptionsRetried ==
    /\ (Ended /\ \A i \in 1..tries : plan[i] = "exception")
          => /\ tries = 3
             /\ waits = <<2, 2>>
             /\ result = "raised"
    /\ \A i \in 1..tries :
          (fn = WrappedFunc /\ plan[i] = "flickr_error")
              => i = tries /\ result = "raised"
C19_Witness ==
    /\ Ended
    /\ tries = 3
    /\ \A i \in 1..3 : plan[i] = "exception"
    /\ result = "raised"
    /\ waits = <<2, 2>>

\* C20: a walk requests the pages 1, 2, 3, ... with page size 100, one
\* request per page; it makes another request only after a non-empty page
\* whose number is below the page count that page reported, and is over
\* right after an empty page or a page at or beyond the reported count.  When
\* every answer reports the same count P, at most max(P, 1) requests are
\* made.  No item of a fetched page is left when the walk moves on.
WalkOver ==
    \/ base_dir = PHOTOS_DIR /\ pc = "fav_start"
    \/ base_dir = FAVORITES_DIR /\ pc = "i_my"
C20_Pagination ==
    /\ \A i \in 1..Len(requests) :
          requests[i].page = i /\ requests[i].per_page = 100
    /\ \A i \in 1..(Len(requests) - 1) :
          ~requests[i].empty /\ i < requests[i].pages
    /\ WalkOver =>
          /\ Len(requests) >= 1
          /\ \/ requests[Len(requests)].empty
             \/ Len(requests) >= requests[Len(requests)].pages
    /\ (Len(requests) >= 1
          /\ \A i \in 1..Len(requests) : requests[i].pages = requests[1].pages)
          => Len(requests) <= IF requests[1].pages > 1 THEN requests[1].pages ELSE 1
    /\ (pc = "w_fetch" \/ WalkOver) => photos = <<>>
C20_Witness ==
    /\ WalkOver
    /\ base_dir = FAVORITES_DIR
    /\ Len(requests) = 2
    /\ ~requests[2].empty
    /\ requests[2].pages = 2
    /\ Cardinality(invoked) >= 2

\* C21: once complete.flag exists in a photo directory, no step of any run
\* creates, changes or deletes a file of that directory or removes the
\* directory, and no step of the pipeline past its resumability check is
\* taken for it, so no per-photo remote call is made for it; a pipeline
\* invocation that finds the marker returns to its walker (unless the process
\* is killed first) with the disk, the user cache and the set of remotely
\* fetched directories as they were.
C21_CompleteUnitImmutable ==
    [][\A d \in Dirs :
          HasFile(d, "complete.flag")
              => /\ d \in dirs'
                 /\ fs'[d] = fs[d]
                 /\ doc'[d] = doc[d]
                 /\ ~(pc \in PipelineSteps \ {"p_enter"} /\ cur = d)
                 /\ (run' = run) => ((d \in calls') <=> (d \in calls))
                 /\ (pc = "p_enter" /\ cur = d)
                       => /\ pc' \in {"w_iter", "killed"}
                          /\ UNCHANGED <<diskVars, calls, USER_CACHE, userCalls>>]_vars
C21_Witness ==
    /\ run = 2
    /\ pc = "done"
    /\ \E d \in flagAtStart : d \in invoked /\ d \notin calls
    /\ \E d \in invoked : d \notin flagAtStart /\ d \in calls /\ HasFile(d, "complete.flag")

\* C22: when create_index has returned, users_cache.json exists and holds the
\* user cache of the run, whatever the cache holds, the empty cache included.
C22_UserCacheSnapshotWritten ==
    pc = "done"
        => /\ "users_cache.json" \in DOMAIN rootfs
           /\ rootfs["users_cache.json"] = USER_CACHE

====
